---- MODULE Spec2Model ----
(***************************************************************************)
(* Model of node/network/src/behaviour.rs: the `Behaviour` combinator that *)
(* routes the events of the sub-protocols (substrate, debug_info,          *)
(* discovery, light_client_handler) into one output queue `events`, which  *)
(* `poll` drains.  Each handler of the source is one operator; the         *)
(* specifications below are environments that call the handlers with       *)
(* inputs drawn from small sets.                                           *)
(***************************************************************************)
EXTENDS Integers, Sequences, FiniteSets, TLC

VARIABLES
    events,     \* Behaviour::events, the queue of BehaviourOut values
    role,       \* Behaviour::role, the local Role given to Behaviour::new
    calls,      \* calls made on the sub-protocols by the latest operation
    ret,        \* value returned to the caller by the latest operation
    panicked,   \* TRUE once an operation has panicked (Vec::remove out of range)
    pushed,     \* history: every event pushed onto `events`, in push order
    polled,     \* history: every event returned by a ready poll, in order
    observed    \* latest result of reported_roles_to_observed_role (SpecRole)

vars == <<events, role, calls, ret, panicked, pushed, polled, observed>>

(***************************************************************************)
(* Value domains                                                           *)
(***************************************************************************)
PeerIds == {"p1", "p2"}

EngineIds == {"e1", "e2"}

ProtocolIds == {"dot", "ksm"}

Keys == {"k1", "k2"}

\* message::Roles is a bit set of capability flags.
RoleFlags == {"FULL", "LIGHT", "AUTHORITY"}

Roles == SUBSET RoleFlags

\* config::Role, the local node's role.
LocalRoles ==
    {[kind |-> "Full"], [kind |-> "Light"]}
    \cup {[kind |-> "Sentry", validators |-> v] : v \in SUBSET PeerIds}
    \cup {[kind |-> "Authority", sentry_nodes |-> s] : s \in SUBSET PeerIds}

ObservedRoles == {"Full", "Light", "Authority", "OurSentry", "OurGuardedAuthority"}

(***************************************************************************)
(* Bounds of the environments and program constants                        *)
(***************************************************************************)
\* Events pushed in one run of Spec.
MaxPushed == 2

\* The longest listen_addrs list is MaxListenAddrs + MaxExtraAddrs long.
MaxExtraAddrs == 2

\* Largest block number reported by PeerNewBest.
MaxNumber == 2

\* `if info.listen_addrs.len() > 30 { ... truncate(30) }`
MaxListenAddrs == 30

(***************************************************************************)
(* Roles (capability flags) accessors                                      *)
(***************************************************************************)
is_authority(roles) == "AUTHORITY" \in roles

is_full(roles) == "FULL" \in roles

(***************************************************************************)
(* reported_roles_to_observed_role                                         *)
(***************************************************************************)
\* Variant: full/light detection first.
roles_full_first(local_role, remote, roles) ==
    IF is_full(roles)
    THEN "Full"
    ELSE IF is_authority(roles)
         THEN CASE local_role.kind = "Authority" /\ remote \in local_role.sentry_nodes
                     -> "OurSentry"
                [] local_role.kind = "Sentry" /\ remote \in local_role.validators
                     -> "OurGuardedAuthority"
                [] OTHER -> "Authority"
         ELSE "Light"

\* Variant: the sentry and validator sets are not consulted for the remote id.
roles_any_remote(local_role, remote, roles) ==
    IF is_authority(roles)
    THEN CASE local_role.kind = "Authority" /\ local_role.sentry_nodes # {}
                -> "OurSentry"
           [] local_role.kind = "Sentry" /\ local_role.validators # {}
                -> "OurGuardedAuthority"
           [] OTHER -> "Authority"
    ELSE IF is_full(roles)
         THEN "Full"
         ELSE "Light"

reported_roles_to_observed_role(local_role, remote, roles) ==
    IF is_authority(roles)
    THEN CASE local_role.kind = "Authority" /\ remote \in local_role.sentry_nodes
                -> "OurSentry"
           [] local_role.kind = "Sentry" /\ remote \in local_role.validators
                -> "OurGuardedAuthority"
           [] OTHER -> "Authority"
    ELSE IF is_full(roles)
         THEN "Full"
         ELSE "Light"

(***************************************************************************)
(* BehaviourOut, Event and DhtEvent values                                 *)
(***************************************************************************)
\* Variant: the blocks are handed on in the opposite order.
BlockImportReversed(origin, blocks) ==
    [out |-> "BlockImport", origin |-> origin,
     blocks |-> [i \in 1..Len(blocks) |-> blocks[Len(blocks) + 1 - i]]]

BlockImport(origin, blocks) ==
    [out |-> "BlockImport", origin |-> origin, blocks |-> blocks]

JustificationImport(origin, hash, nb, justification) ==
    [out |-> "JustificationImport", origin |-> origin, hash |-> hash,
     nb |-> nb, justification |-> justification]

FinalityProofImport(origin, hash, nb, proof) ==
    [out |-> "FinalityProofImport", origin |-> origin, hash |-> hash,
     nb |-> nb, proof |-> proof]

RandomKademliaStarted(protocol) ==
    [out |-> "RandomKademliaStarted", protocol |-> protocol]

BehaviourOutEvent(ev) == [out |-> "Event", event |-> ev]

NotificationStreamOpened(remote, engine_id, r) ==
    [type |-> "NotificationStreamOpened", remote |-> remote,
     engine_id |-> engine_id, role |-> r]

NotificationStreamClosed(remote, engine_id) ==
    [type |-> "NotificationStreamClosed", remote |-> remote, engine_id |-> engine_id]

\* Variant: only the first message of the batch is kept.
NotificationsReceivedFirst(remote, messages) ==
    [type |-> "NotificationsReceived", remote |-> remote,
     messages |-> SubSeq(messages, 1, IF Len(messages) > 1 THEN 1 ELSE Len(messages))]

NotificationsReceived(remote, messages) ==
    [type |-> "NotificationsReceived", remote |-> remote, messages |-> messages]

Dht(dht_event) == [type |-> "Dht", dht |-> dht_event]

\* Variant: a failed put is reported as a successful one.
DhtEventConfused(variant, payload) ==
    [variant |-> IF variant = "ValuePutFailed" THEN "ValuePut" ELSE variant,
     payload |-> payload]

DhtEvent(variant, payload) == [variant |-> variant, payload |-> payload]

(***************************************************************************)
(* Values returned to the caller, and calls made on the sub-protocols      *)
(***************************************************************************)
Unit == [tag |-> "Unit"]

Pending == [tag |-> "Pending"]

Ready(ev) == [tag |-> "Ready", action |-> "GenerateEvent", event |-> ev]

Call(target, method, args) == [target |-> target, method |-> method, args |-> args]

(***************************************************************************)
(* Vec operations used on `events` and on `listen_addrs`                   *)
(***************************************************************************)
is_empty(v) == Len(v) = 0

\* Variant: the new element is put in front of the others.
push_front(v, x) == <<x>> \o v

push(v, x) == Append(v, x)

\* Variant: the last element is taken (Vec::pop).
remove_last(v, index) == v[Len(v)]

\* Vec::remove(index) with index < len: the element removed ...
remove_elem(v, index) == v[index + 1]

\* ... and the vector left, the later elements shifted to the left.
remove_rest(v, index) ==
    [j \in 1..(Len(v) - 1) |-> IF j <= index THEN v[j] ELSE v[j + 1]]

\* Vec::truncate(len): no effect when len is not smaller than the length.
truncate(v, len) == IF len < Len(v) THEN SubSeq(v, 1, len) ELSE v

\* `for x in xs { self.events.push(x) }`
RECURSIVE push_each(_, _)
push_each(v, xs) ==
    IF xs = <<>> THEN v ELSE push_each(push(v, Head(xs)), Tail(xs))

(***************************************************************************)
(* The state change of a handler that pushes `evs` in order, makes the     *)
(* calls `cs` and returns `r`.  No handler writes `role`, and nothing runs *)
(* after a panic.                                                          *)
(***************************************************************************)
\* Variant: a handler leaves the local role at Full.
EffectRoleReset(evs, cs, r) ==
    /\ ~panicked
    /\ events' = push_each(events, evs)
    /\ pushed' = pushed \o evs
    /\ calls' = cs
    /\ ret' = r
    /\ role' = [kind |-> "Full"]
    /\ UNCHANGED <<polled, panicked, observed>>

Effect(evs, cs, r) ==
    /\ ~panicked
    /\ events' = push_each(events, evs)
    /\ pushed' = pushed \o evs
    /\ calls' = cs
    /\ ret' = r
    /\ UNCHANGED <<role, polled, panicked, observed>>

(***************************************************************************)
(* Behaviour::register_notifications_protocol.  `list` is what             *)
(* substrate.register_notifications_protocol returns: the (remote, roles)  *)
(* pairs of the peers already connected.                                   *)
(***************************************************************************)
\* Variant: the returned list is walked from its end.
RegisteredEventsReversed(local_role, engine_id, list) ==
    [i \in 1..Len(list) |->
        BehaviourOutEvent(NotificationStreamOpened(
            list[Len(list) + 1 - i][1], engine_id,
            reported_roles_to_observed_role(local_role, list[Len(list) + 1 - i][1],
                                            list[Len(list) + 1 - i][2])))]

RegisteredEvents(local_role, engine_id, list) ==
    [i \in 1..Len(list) |->
        BehaviourOutEvent(NotificationStreamOpened(
            list[i][1], engine_id,
            reported_roles_to_observed_role(local_role, list[i][1], list[i][2])))]

register_notifications_protocol(engine_id, protocol_name, list) ==
    Effect(RegisteredEvents(role, engine_id, list),
           <<Call("substrate", "register_notifications_protocol",
                  <<engine_id, protocol_name>>)>>,
           Unit)

(***************************************************************************)
(* Behaviour::add_known_address, get_value, put_value, light_client_request*)
(***************************************************************************)
add_known_address(peer_id, addr) ==
    Effect(<<>>, <<Call("discovery", "add_known_address", <<peer_id, addr>>)>>, Unit)

\* Variant: a not-found event is queued at once.
get_value_eager(key) ==
    Effect(<<BehaviourOutEvent(Dht(DhtEvent("ValueNotFound", key)))>>,
           <<Call("discovery", "get_value", <<key>>)>>, Unit)

get_value(key) ==
    Effect(<<>>, <<Call("discovery", "get_value", <<key>>)>>, Unit)

\* Variant: a put that repeats the call made just before it is not forwarded.
put_value_dedup(key, value) ==
    IF calls = <<Call("discovery", "put_value", <<key, value>>)>>
    THEN Effect(<<>>, <<>>, Unit)
    ELSE Effect(<<>>, <<Call("discovery", "put_value", <<key, value>>)>>, Unit)

put_value(key, value) ==
    Effect(<<>>, <<Call("discovery", "put_value", <<key, value>>)>>, Unit)

\* Variant: the result of the request is not handed back.
light_client_request_swallowed(r, result) ==
    Effect(<<>>, <<Call("light_client_handler", "request", <<r>>)>>, [tag |-> "Ok"])

\* `result` is what light_client_handler.request(r) returns.
light_client_request(r, result) ==
    Effect(<<>>, <<Call("light_client_handler", "request", <<r>>)>>, result)

(***************************************************************************)
(* NetworkBehaviourEventProcess<CustomMessageOutcome>::inject_event        *)
(* The events of the substrate (sync) sub-protocol.                        *)
(***************************************************************************)
\* Variant: the local role is not taken into account.
StreamOpenedEventsNoLocal(local_role, remote, protocols, roles) ==
    LET r == reported_roles_to_observed_role([kind |-> "Full"], remote, roles)
    IN  [i \in 1..Len(protocols) |->
            BehaviourOutEvent(NotificationStreamOpened(remote, protocols[i], r))]

StreamOpenedEvents(local_role, remote, protocols, roles) ==
    LET r == reported_roles_to_observed_role(local_role, remote, roles)
    IN  [i \in 1..Len(protocols) |->
            BehaviourOutEvent(NotificationStreamOpened(remote, protocols[i], r))]

\* Variant: the closed events are queued last protocol first.
StreamClosedEventsReversed(remote, protocols) ==
    [i \in 1..Len(protocols) |->
        BehaviourOutEvent(NotificationStreamClosed(remote,
                                                   protocols[Len(protocols) + 1 - i]))]

StreamClosedEvents(remote, protocols) ==
    [i \in 1..Len(protocols) |->
        BehaviourOutEvent(NotificationStreamClosed(remote, protocols[i]))]

\* Variant: the light client handler is not told.
on_PeerNewBest_dropped(peer_id, number) == Effect(<<>>, <<>>, Unit)

\* `CustomMessageOutcome::PeerNewBest(peer_id, number) => { ... }`
on_PeerNewBest(peer_id, number) ==
    Effect(<<>>,
           <<Call("light_client_handler", "update_best_block", <<peer_id, number>>)>>,
           Unit)

inject_event_CustomMessageOutcome(event) ==
    CASE event.type = "BlockImport" ->
            Effect(<<BlockImport(event.origin, event.blocks)>>, <<>>, Unit)
      [] event.type = "JustificationImport" ->
            Effect(<<JustificationImport(event.origin, event.hash, event.nb,
                                       event.justification)>>, <<>>, Unit)
      [] event.type = "FinalityProofImport" ->
            Effect(<<FinalityProofImport(event.origin, event.hash, event.nb,
                                       event.proof)>>, <<>>, Unit)
      [] event.type = "NotificationStreamOpened" ->
            Effect(StreamOpenedEvents(role, event.remote, event.protocols, event.roles),
                 <<>>, Unit)
      [] event.type = "NotificationStreamClosed" ->
            Effect(StreamClosedEvents(event.remote, event.protocols), <<>>, Unit)
      [] event.type = "NotificationsReceived" ->
            Effect(<<BehaviourOutEvent(NotificationsReceived(event.remote, event.messages))>>,
                 <<>>, Unit)
      [] event.type = "PeerNewBest" ->
            on_PeerNewBest(event.peer_id, event.number)
      [] event.type = "None" ->
            Effect(<<>>, <<>>, Unit)

(***************************************************************************)
(* NetworkBehaviourEventProcess<DebugInfoEvent>::inject_event              *)
(* The only event is Identified { peer_id, info }.                         *)
(***************************************************************************)
\* Variant: the list is forwarded whole.
SelfReportedAddrsAll(listen_addrs) == listen_addrs

SelfReportedAddrs(listen_addrs) ==
    IF Len(listen_addrs) > MaxListenAddrs
    THEN truncate(listen_addrs, MaxListenAddrs)
    ELSE listen_addrs

IdentifiedCalls(peer_id, listen_addrs) ==
    LET addrs == SelfReportedAddrs(listen_addrs)
    IN  [i \in 1..Len(addrs) |->
            Call("discovery", "add_self_reported_address", <<peer_id, addrs[i]>>)]
        \o <<Call("substrate", "add_discovered_nodes", <<peer_id>>)>>

inject_event_DebugInfoEvent(peer_id, listen_addrs) ==
    Effect(<<>>, IdentifiedCalls(peer_id, listen_addrs), Unit)

(***************************************************************************)
(* NetworkBehaviourEventProcess<DiscoveryOut>::inject_event                *)
(***************************************************************************)
\* Variant: one event for the whole list, carrying its first protocol.
KademliaStartedEventsFirst(protocols) ==
    [i \in 1..(IF Len(protocols) > 1 THEN 1 ELSE Len(protocols)) |->
        RandomKademliaStarted(protocols[i])]

KademliaStartedEvents(protocols) ==
    [i \in 1..Len(protocols) |-> RandomKademliaStarted(protocols[i])]

\* Variant: a discovered peer is not handed to the sync sub-protocol.
on_Discovered_silent(peer_id) ==
    Effect(<<>>, <<>>, Unit)

on_Discovered(peer_id) ==
    Effect(<<>>, <<Call("substrate", "add_discovered_nodes", <<peer_id>>)>>, Unit)

inject_event_DiscoveryOut(out) ==
    CASE out.type = "UnroutablePeer" ->
            Effect(<<>>, <<>>, Unit)
      [] out.type = "Discovered" ->
            on_Discovered(out.peer_id)
      [] out.type = "ValueFound" ->
            Effect(<<BehaviourOutEvent(Dht(DhtEvent("ValueFound", out.results)))>>,
                 <<>>, Unit)
      [] out.type = "ValueNotFound" ->
            Effect(<<BehaviourOutEvent(Dht(DhtEvent("ValueNotFound", out.key)))>>,
                 <<>>, Unit)
      [] out.type = "ValuePut" ->
            Effect(<<BehaviourOutEvent(Dht(DhtEvent("ValuePut", out.key)))>>,
                 <<>>, Unit)
      [] out.type = "ValuePutFailed" ->
            Effect(<<BehaviourOutEvent(Dht(DhtEvent("ValuePutFailed", out.key)))>>,
                 <<>>, Unit)
      [] out.type = "RandomKademliaStarted" ->
            Effect(KademliaStartedEvents(out.protocols), <<>>, Unit)

(***************************************************************************)
(* Behaviour::poll                                                         *)
(***************************************************************************)
\* Variant: the queue is not tested.
\* Variant: the queue is never found non-empty.
PollNever(v) == FALSE

PollAlways(v) == TRUE

\* `if !self.events.is_empty()`
PollReady(v) == ~is_empty(v)

poll ==
    /\ ~panicked
    /\ calls' = <<>>
    /\ UNCHANGED <<role, pushed, observed>>
    /\ IF PollReady(events)
       THEN IF 0 < Len(events)
            THEN /\ ret' = Ready(remove_elem(events, 0))
                 /\ events' = remove_rest(events, 0)
                 /\ polled' = Append(polled, remove_elem(events, 0))
                 /\ UNCHANGED panicked
            ELSE \* Vec::remove panics when the index is out of bounds
                 /\ panicked' = TRUE
                 /\ UNCHANGED <<events, ret, polled>>
       ELSE /\ ret' = Pending
            /\ UNCHANGED <<events, polled, panicked>>

(***************************************************************************)
(* Inputs of the environments                                              *)
(***************************************************************************)
\* Sequences without repetition over a set, of length at most 2.
ListsUpTo2(S) ==
    {<<>>} \cup {<<x>> : x \in S}
    \cup {l \in {<<x, y>> : x \in S, y \in S} : l[1] # l[2]}

\* A listen_addrs list of length n; the addresses are distinct and unordered.
ListenAddrs(n) == [i \in 1..n |-> (i * 7) % 37]

\* What light_client_handler.request may return.
RequestResults == {[tag |-> "Ok"], [tag |-> "Err", error |-> "TooManyRequests"]}

\* The events of the substrate sub-protocol about peers P, with the protocol
\* lists L and the reported roles R.
CustomMessageOutcomes(P, L, R) ==
    {[type |-> "BlockImport", origin |-> "NetworkBroadcast", blocks |-> <<"b1", "b2">>],
     [type |-> "JustificationImport", origin |-> "p1", hash |-> "h1", nb |-> 1,
      justification |-> "j1"],
     [type |-> "FinalityProofImport", origin |-> "p1", hash |-> "h1", nb |-> 1,
      proof |-> "f1"],
     [type |-> "None"]}
    \cup {[type |-> "NotificationStreamOpened", remote |-> p, protocols |-> l,
           roles |-> r] : p \in P, l \in L, r \in R}
    \cup {[type |-> "NotificationStreamClosed", remote |-> p, protocols |-> l] :
           p \in P, l \in L}
    \cup {[type |-> "NotificationsReceived", remote |-> p,
           messages |-> <<<<"e1", "m1">>, <<"e2", "m2">>>>] : p \in P}
    \cup {[type |-> "PeerNewBest", peer_id |-> p, number |-> 1] : p \in P}

\* The events of the discovery sub-protocol about peers P and keys K.
DiscoveryOuts(P, K) ==
    {[type |-> "UnroutablePeer", peer_id |-> p] : p \in P}
    \cup {[type |-> "Discovered", peer_id |-> p] : p \in P}
    \cup {[type |-> "ValueFound", results |-> <<<<k, "v1">>>>] : k \in K}
    \cup {[type |-> "ValueNotFound", key |-> k] : k \in K}
    \cup {[type |-> "ValuePut", key |-> k] : k \in K}
    \cup {[type |-> "ValuePutFailed", key |-> k] : k \in K}
    \cup {[type |-> "RandomKademliaStarted", protocols |-> <<"dot">>]}

(***************************************************************************)
(* Spec: the combinator after Behaviour::new, driven by every interleaving *)
(* of all its operations, each with a few inputs.                          *)
(***************************************************************************)
InitRoles(R) ==
    /\ events = <<>>
    /\ role \in R
    /\ calls = <<>>
    /\ ret = Unit
    /\ panicked = FALSE
    /\ pushed = <<>>
    /\ polled = <<>>
    /\ observed = [result |-> "none"]

\* The environment stops injecting once MaxPushed events have been pushed.
Within == Len(pushed') <= MaxPushed

Init ==
    InitRoles({[kind |-> "Full"], [kind |-> "Authority", sentry_nodes |-> {"p1"}]})

Register ==
    \E l \in {<<>>, <<<<"p1", {"AUTHORITY"}>>>>} :
        register_notifications_protocol("e1", "name", l) /\ Within

AddKnownAddress == add_known_address("p1", ListenAddrs(1)[1])

GetValue == \E k \in Keys : get_value(k)

PutValue == put_value("k1", "v1")

LightClientRequest == \E res \in RequestResults : light_client_request("req", res)

InjectCustom ==
    \E ev \in CustomMessageOutcomes({"p2"}, {<<>>, <<"e1", "e2">>}, {{"FULL"}}) :
        inject_event_CustomMessageOutcome(ev) /\ Within

InjectIdentified == inject_event_DebugInfoEvent("p1", ListenAddrs(2))

InjectDiscovery ==
    \E out \in DiscoveryOuts({"p1"}, {"k1"}) : inject_event_DiscoveryOut(out) /\ Within

Poll == poll

Next ==
    \/ Register
    \/ AddKnownAddress
    \/ GetValue
    \/ PutValue
    \/ LightClientRequest
    \/ InjectCustom
    \/ InjectIdentified
    \/ InjectDiscovery
    \/ Poll

Spec == Init /\ [][Next]_vars

(***************************************************************************)
(* SpecRole: reported_roles_to_observed_role applied to every local role,  *)
(* remote peer and set of capability flags.                                *)
(***************************************************************************)
InitRole == InitRoles(LocalRoles)

Classify ==
    \E remote \in PeerIds, roles \in Roles :
        /\ observed' = [remote |-> remote, roles |-> roles,
                        result |-> reported_roles_to_observed_role(role, remote, roles)]
        /\ UNCHANGED <<events, role, calls, ret, panicked, pushed, polled>>

NextRole == Classify

SpecRole == InitRole /\ [][NextRole]_vars

(***************************************************************************)
(* SpecSync: the notification streams.  Protocols are registered and       *)
(* streams are opened for every peer, protocol list and reported roles,    *)
(* under three local roles, between block imports and polls.               *)
(***************************************************************************)
ReportedRoles == {{"FULL"}, {"LIGHT"}, {"AUTHORITY"}}

\* What substrate.register_notifications_protocol may return: the peers
\* already connected, each once, with the roles each reported.
ConnectedLists ==
    {<<>>}
    \cup {<<<<p, r>>>> : p \in PeerIds, r \in ReportedRoles}
    \cup {l \in {<<<<p, r>>, <<q, t>>>> :
                    p \in PeerIds, q \in PeerIds, r \in ReportedRoles, t \in ReportedRoles} :
            l[1][1] # l[2][1]}

SyncOutcomes ==
    {ev \in CustomMessageOutcomes(PeerIds, ListsUpTo2(EngineIds), ReportedRoles) :
        ev.type \in {"BlockImport", "NotificationStreamOpened"}}

InitSync ==
    InitRoles({[kind |-> "Full"],
               [kind |-> "Authority", sentry_nodes |-> {"p1"}],
               [kind |-> "Sentry", validators |-> {"p1"}]})

RegisterSync ==
    \E e \in EngineIds, l \in ConnectedLists :
        register_notifications_protocol(e, "name", l) /\ Within

InjectSync ==
    \E ev \in SyncOutcomes : inject_event_CustomMessageOutcome(ev) /\ Within

NextSync ==
    \/ RegisterSync
    \/ InjectSync
    \/ Poll

SpecSync == InitSync /\ [][NextSync]_vars

(***************************************************************************)
(* SpecDht: the facades and the events that only call a sub-protocol, for  *)
(* every peer, key and block number, between DHT results and polls.        *)
(***************************************************************************)
DhtOuts == DiscoveryOuts(PeerIds, Keys)

CallOutcomes ==
    {[type |-> "PeerNewBest", peer_id |-> p, number |-> n] :
        p \in PeerIds, n \in 1..MaxNumber}
    \cup {[type |-> "None"]}

InitDht == InitRoles({[kind |-> "Full"]})

AddKnownAddressDht == \E p \in PeerIds : add_known_address(p, ListenAddrs(1)[1])

PutValueDht == \E k \in Keys, v \in {"v1", "v2"} : put_value(k, v)

InjectCall == \E ev \in CallOutcomes : inject_event_CustomMessageOutcome(ev)

InjectDht == \E out \in DhtOuts : inject_event_DiscoveryOut(out) /\ Within

NextDht ==
    \/ AddKnownAddressDht
    \/ GetValue
    \/ PutValueDht
    \/ LightClientRequest
    \/ InjectCall
    \/ InjectDht
    \/ Poll

SpecDht == InitDht /\ [][NextDht]_vars

(***************************************************************************)
(* SpecIdentify: Identified events with listen_addrs lists of every length *)
(* up to MaxListenAddrs + MaxExtraAddrs, between DHT results and polls.    *)
(***************************************************************************)
ListenAddrLens == 0..(MaxListenAddrs + MaxExtraAddrs)

IdentifyOuts == {out \in DiscoveryOuts(PeerIds, Keys) : out.type = "ValueFound"}

IdentifiedAny ==
    \E p \in PeerIds, n \in ListenAddrLens : inject_event_DebugInfoEvent(p, ListenAddrs(n))

InjectFound == \E out \in IdentifyOuts : inject_event_DiscoveryOut(out) /\ Within

NextIdentify ==
    \/ IdentifiedAny
    \/ InjectFound
    \/ Poll

SpecIdentify == InitDht /\ [][NextIdentify]_vars

(***************************************************************************)
(* SpecImport: block, justification and finality proof imports with every  *)
(* origin, block list, hash and number, between polls.                     *)
(***************************************************************************)
BlockLists == {<<>>, <<"b1", "b2">>, <<"b2", "b1">>}

ImportOutcomes ==
    {[type |-> "BlockImport", origin |-> o, blocks |-> b] :
        o \in {"NetworkBroadcast", "NetworkInitialSync"}, b \in BlockLists}
    \cup {[type |-> "JustificationImport", origin |-> p, hash |-> h, nb |-> n,
           justification |-> "j1"] : p \in PeerIds, h \in {"h1", "h2"}, n \in 1..MaxNumber}
    \cup {[type |-> "FinalityProofImport", origin |-> p, hash |-> h, nb |-> n,
           proof |-> "f1"] : p \in PeerIds, h \in {"h1", "h2"}, n \in 1..MaxNumber}

InjectImport ==
    \E ev \in ImportOutcomes : inject_event_CustomMessageOutcome(ev) /\ Within

NextImport ==
    \/ InjectImport
    \/ Poll

SpecImport == InitDht /\ [][NextImport]_vars

(***************************************************************************)
(* SpecNotif: notification streams that open and close, and batches of     *)
(* notifications of every length up to three, between polls.               *)
(***************************************************************************)
MessageLists ==
    {<<>>,
     <<<<"e1", "m1">>>>,
     <<<<"e1", "m1">>, <<"e2", "m2">>>>,
     <<<<"e2", "m2">>, <<"e1", "m1">>>>,
     <<<<"e1", "m1">>, <<"e1", "m1">>>>,
     <<<<"e1", "m2">>, <<"e1", "m1">>, <<"e2", "m1">>>>}

NotifOutcomes ==
    {[type |-> "NotificationStreamOpened", remote |-> p, protocols |-> l,
      roles |-> {"FULL"}] : p \in PeerIds, l \in ListsUpTo2(EngineIds)}
    \cup {[type |-> "NotificationStreamClosed", remote |-> p, protocols |-> l] :
             p \in PeerIds, l \in ListsUpTo2(EngineIds)}
    \cup {[type |-> "NotificationsReceived", remote |-> p, messages |-> m] :
             p \in PeerIds, m \in MessageLists}

InjectNotif ==
    \E ev \in NotifOutcomes : inject_event_CustomMessageOutcome(ev) /\ Within

NextNotif ==
    \/ InjectNotif
    \/ Poll

SpecNotif == InitDht /\ [][NextNotif]_vars

(***************************************************************************)
(* SpecDisc: every event of discovery, with result lists of zero to two    *)
(* records and protocol lists of zero to two ids, between polls.           *)
(***************************************************************************)
ResultLists ==
    {<<>>, <<<<"k1", "v1">>>>,
     <<<<"k1", "v1">>, <<"k2", "v2">>>>,
     <<<<"k2", "v2">>, <<"k1", "v1">>>>}

DiscOuts ==
    DiscoveryOuts(PeerIds, Keys)
    \cup {[type |-> "ValueFound", results |-> r] : r \in ResultLists}
    \cup {[type |-> "RandomKademliaStarted", protocols |-> l] :
             l \in ListsUpTo2(ProtocolIds)}

InjectDisc == \E out \in DiscOuts : inject_event_DiscoveryOut(out) /\ Within

NextDisc ==
    \/ InjectDisc
    \/ Poll

SpecDisc == InitDht /\ [][NextDisc]_vars

(***************************************************************************)
(* SpecLive: the operations of Spec, with poll called again and again by   *)
(* the swarm: a poll that would change the state is not put off for ever.  *)
(***************************************************************************)
SpecLive == Init /\ [][Next]_vars /\ WF_vars(Poll)

(***************************************************************************)
(* SpecPaths: every operation, with the same peers and role flags reaching *)
(* the behaviour by registration (engine e1) and by opened streams (e2).   *)
(***************************************************************************)
PathFlags == {{"AUTHORITY"}, {"FULL"}}

InitPaths ==
    InitRoles({[kind |-> "Full"],
               [kind |-> "Authority", sentry_nodes |-> {"p1"}],
               [kind |-> "Sentry", validators |-> {"p1"}]})

RegisterPaths ==
    \E p \in PeerIds, f \in PathFlags :
        register_notifications_protocol("e1", "name", <<<<p, f>>>>) /\ Within

InjectOpenedPaths ==
    \E p \in PeerIds, f \in PathFlags :
        /\ inject_event_CustomMessageOutcome(
               [type |-> "NotificationStreamOpened", remote |-> p,
                protocols |-> <<"e2">>, roles |-> f])
        /\ Within

NextPaths ==
    \/ RegisterPaths
    \/ InjectOpenedPaths
    \/ AddKnownAddress
    \/ GetValue
    \/ PutValue
    \/ LightClientRequest
    \/ InjectCall
    \/ InjectIdentified
    \/ InjectDiscovery
    \/ Poll

SpecPaths == InitPaths /\ [][NextPaths]_vars

(***************************************************************************)
(* Properties                                                              *)
(***************************************************************************)

\* C1: in every reachable state the events pushed so far are exactly the
\* events returned by the ready polls so far, in the same order, followed by
\* the queue's content (nothing lost, duplicated or reordered); and a poll of
\* a non-empty queue returns its oldest event and removes exactly that one.
C1_Fifo ==
    /\ [](pushed = polled \o events)
    /\ [][(poll /\ events # <<>>) =>
            /\ ret' = Ready(Head(events))
            /\ events' = Tail(events)
            /\ polled' = Append(polled, Head(events))]_vars

C1_Witness ==
    /\ Len(polled) = 1
    /\ Len(events) = 1
    /\ polled[1] # events[1]
    /\ ret = Ready(polled[1])

\* C2: the classifier's result is always one of the five observed roles, and
\* it is neither Full nor Light whenever the AUTHORITY flag is among the
\* reported roles, whatever other flags are set.
C2_Total ==
    observed.result # "none" =>
        /\ observed.result \in ObservedRoles
        /\ ("AUTHORITY" \in observed.roles => observed.result \notin {"Full", "Light"})

C2_Witness ==
    /\ observed.result = "Authority"
    /\ observed.roles = {"FULL", "LIGHT", "AUTHORITY"}

\* C3: OurSentry exactly for an authority-reporting remote in the sentry set
\* of a local Authority; OurGuardedAuthority exactly for an authority-reporting
\* remote in the validator set of a local Sentry; Authority for every other
\* authority-reporting remote; otherwise Full if the FULL flag is reported and
\* Light if not, also for remotes in the local sentry or validator set.
InSentrySet(r, remote) == r.kind = "Authority" /\ remote \in r.sentry_nodes

InValidatorSet(r, remote) == r.kind = "Sentry" /\ remote \in r.validators

C3_Classes ==
    observed.result # "none" =>
        LET auth == "AUTHORITY" \in observed.roles
            full == "FULL" \in observed.roles
            res  == observed.result
        IN  /\ res = "OurSentry" <=> (auth /\ InSentrySet(role, observed.remote))
            /\ res = "OurGuardedAuthority" <=> (auth /\ InValidatorSet(role, observed.remote))
            /\ res = "Authority" <=>
                  (auth /\ ~InSentrySet(role, observed.remote)
                        /\ ~InValidatorSet(role, observed.remote))
            /\ res = "Full" <=> (~auth /\ full)
            /\ res = "Light" <=> (~auth /\ ~full)

C3_Witness ==
    /\ observed.result = "OurGuardedAuthority"
    /\ role.kind = "Sentry"
    /\ role.validators = {observed.remote}

\* C4: a register_notifications_protocol(e, name) call for which the sync
\* sub-protocol returns the list l leaves the events already queued in place
\* and appends Len(l) NotificationStreamOpened events, the i-th carrying the
\* i-th returned peer, e, and the classifier's role for that peer's flags and
\* the local role; with an empty list the queue is unchanged.
C4_Register ==
    [][\A e \in EngineIds, l \in ConnectedLists :
          register_notifications_protocol(e, "name", l) =>
              /\ Len(events') = Len(events) + Len(l)
              /\ SubSeq(events', 1, Len(events)) = events
              /\ \A i \in 1..Len(l) :
                    events'[Len(events) + i] =
                        [out |-> "Event",
                         event |-> [type |-> "NotificationStreamOpened",
                                    remote |-> l[i][1], engine_id |-> e,
                                    role |-> reported_roles_to_observed_role(
                                                role, l[i][1], l[i][2])]]
              /\ (l = <<>> => events' = events)]_vars

C4_Witness ==
    /\ calls = <<Call("substrate", "register_notifications_protocol", <<"e2", "name">>)>>
    /\ Len(events) = 2
    /\ \A i \in 1..2 : events[i].out = "Event"
    /\ \A i \in 1..2 : events[i].event.type = "NotificationStreamOpened"
    /\ events[1].event.remote = "p2"
    /\ events[2].event.remote = "p1"
    /\ events[1].event.role = "Authority"
    /\ events[2].event.role = "OurSentry"

\* C5: an Identified event with n listen addresses makes min(n, 30)
\* add_self_reported_address calls on discovery, for the first min(n, 30)
\* addresses in their order, then one add_discovered_nodes call for the peer
\* on the sync sub-protocol, and leaves the queue unchanged.
Min(a, b) == IF a < b THEN a ELSE b

C5_Identified ==
    [][\A p \in PeerIds, n \in ListenAddrLens :
          inject_event_DebugInfoEvent(p, ListenAddrs(n)) =>
              LET m == Min(n, 30)
              IN  /\ events' = events
                  /\ pushed' = pushed
                  /\ Len(calls') = m + 1
                  /\ \A i \in 1..m :
                        calls'[i] = [target |-> "discovery",
                                     method |-> "add_self_reported_address",
                                     args |-> <<p, ListenAddrs(n)[i]>>]
                  /\ calls'[m + 1] = [target |-> "substrate",
                                      method |-> "add_discovered_nodes",
                                      args |-> <<p>>]]_vars

C5_Witness ==
    /\ Len(calls) = 31
    /\ calls[30].method = "add_self_reported_address"
    /\ calls[30].args = <<"p2", ListenAddrs(32)[30]>>
    /\ calls[31].method = "add_discovered_nodes"
    /\ events # <<>>

\* C6: a NotificationStreamOpened event of the sync sub-protocol for peer p
\* with protocols t1..tn leaves the events already queued in place and
\* appends n NotificationStreamOpened events, the i-th carrying p and ti, all
\* with the classifier's role for p's flags; with no protocol nothing is
\* appended.
C6_StreamOpened ==
    [][\A p \in PeerIds, l \in ListsUpTo2(EngineIds), r \in ReportedRoles :
          inject_event_CustomMessageOutcome(
              [type |-> "NotificationStreamOpened", remote |-> p, protocols |-> l,
               roles |-> r]) =>
              /\ Len(events') = Len(events) + Len(l)
              /\ SubSeq(events', 1, Len(events)) = events
              /\ \A i \in 1..Len(l) :
                    events'[Len(events) + i] =
                        [out |-> "Event",
                         event |-> [type |-> "NotificationStreamOpened",
                                    remote |-> p, engine_id |-> l[i],
                                    role |-> reported_roles_to_observed_role(role, p, r)]]
              /\ (l = <<>> => events' = events)]_vars

C6_Witness ==
    /\ calls = <<>>
    /\ Len(events) = 2
    /\ \A i \in 1..2 : events[i].out = "Event"
    /\ \A i \in 1..2 : events[i].event.type = "NotificationStreamOpened"
    /\ events[1].event.remote = "p1"
    /\ events[2].event.remote = "p1"
    /\ events[1].event.engine_id = "e2"
    /\ events[2].event.engine_id = "e1"
    /\ events[1].event.role = "OurSentry"
    /\ events[2].event.role = "OurSentry"
    /\ pushed = events

\* C7: get_value and put_value leave the queue as it is; a ValueNotFound(k)
\* event of discovery appends exactly one DHT ValueNotFound event carrying k;
\* and a DHT event is pushed only in a step that injects a DHT result of
\* discovery.
DhtTypes == {"ValueFound", "ValueNotFound", "ValuePut", "ValuePutFailed"}

DhtCount(q) ==
    Cardinality({i \in 1..Len(q) : q[i].out = "Event" /\ q[i].event.type = "Dht"})

C7_Dht ==
    /\ [][\A k \in Keys : get_value(k) => (events' = events /\ pushed' = pushed)]_vars
    /\ [][\A k \in Keys, v \in {"v1", "v2"} :
            put_value(k, v) => (events' = events /\ pushed' = pushed)]_vars
    /\ [][\A k \in Keys :
            inject_event_DiscoveryOut([type |-> "ValueNotFound", key |-> k]) =>
                events' = Append(events,
                                 [out |-> "Event",
                                  event |-> [type |-> "Dht",
                                             dht |-> [variant |-> "ValueNotFound",
                                                      payload |-> k]]])]_vars
    /\ [][DhtCount(pushed') > DhtCount(pushed) =>
            \E out \in DhtOuts :
                out.type \in DhtTypes /\ inject_event_DiscoveryOut(out)]_vars

C7_Witness ==
    /\ Len(events) = 2
    /\ events[1] = BehaviourOutEvent(Dht(DhtEvent("ValueFound", <<<<"k1", "v1">>>>)))
    /\ events[2] = BehaviourOutEvent(Dht(DhtEvent("ValueNotFound", "k2")))
    /\ calls = <<>>

\* C8: a PeerNewBest(p, n) event leaves the queue unchanged and makes exactly
\* one call, update_best_block(p, n) on the light client handler; a None event
\* changes nothing and makes no call.
C8_PeerNewBest ==
    /\ [][\A p \in PeerIds, n \in 1..MaxNumber :
            inject_event_CustomMessageOutcome(
                [type |-> "PeerNewBest", peer_id |-> p, number |-> n]) =>
                /\ events' = events
                /\ pushed' = pushed
                /\ calls' = <<[target |-> "light_client_handler",
                               method |-> "update_best_block",
                               args |-> <<p, n>>]>>]_vars
    /\ [][inject_event_CustomMessageOutcome([type |-> "None"]) =>
                /\ UNCHANGED <<events, role, pushed, polled, panicked>>
                /\ calls' = <<>>]_vars

C8_Witness ==
    /\ calls = <<Call("light_client_handler", "update_best_block", <<"p2", MaxNumber>>)>>
    /\ Len(events) = 2

\* C9: a poll of the empty queue returns Pending, leaves the queue empty,
\* changes no state and makes no call; and no poll ever removes from an empty
\* queue (which would panic).
C9_EmptyPoll ==
    /\ [][(poll /\ events = <<>>) =>
            /\ ret' = Pending
            /\ events' = <<>>
            /\ calls' = <<>>
            /\ UNCHANGED <<role, pushed, polled, panicked>>]_vars
    /\ [](~panicked)

C9_Witness ==
    /\ ret = Pending
    /\ events = <<>>
    /\ Len(polled) = 2

\* C10: light_client_request hands back the result of the light client
\* handler, success or error, and leaves the queue unchanged.
C10_Request ==
    [][\A res \in RequestResults :
          light_client_request("req", res) =>
              /\ ret' = res
              /\ events' = events
              /\ pushed' = pushed]_vars

C10_Witness ==
    /\ ret = [tag |-> "Err", error |-> "TooManyRequests"]
    /\ calls = <<Call("light_client_handler", "request", <<"req">>)>>
    /\ events # <<>>

\* C11: a BlockImport, JustificationImport or FinalityProofImport event of the
\* sync sub-protocol appends exactly one event of the same kind with the same
\* fields (the blocks in the same order) behind the events already queued,
\* and makes no call on any sub-protocol.
C11_Imports ==
    /\ [][\A ev \in ImportOutcomes :
            (ev.type = "BlockImport" /\ inject_event_CustomMessageOutcome(ev)) =>
                /\ events' = Append(events, [out |-> "BlockImport",
                                             origin |-> ev.origin,
                                             blocks |-> ev.blocks])
                /\ calls' = <<>>]_vars
    /\ [][\A ev \in ImportOutcomes :
            (ev.type = "JustificationImport" /\ inject_event_CustomMessageOutcome(ev)) =>
                /\ events' = Append(events, [out |-> "JustificationImport",
                                             origin |-> ev.origin, hash |-> ev.hash,
                                             nb |-> ev.nb,
                                             justification |-> ev.justification])
                /\ calls' = <<>>]_vars
    /\ [][\A ev \in ImportOutcomes :
            (ev.type = "FinalityProofImport" /\ inject_event_CustomMessageOutcome(ev)) =>
                /\ events' = Append(events, [out |-> "FinalityProofImport",
                                             origin |-> ev.origin, hash |-> ev.hash,
                                             nb |-> ev.nb, proof |-> ev.proof])
                /\ calls' = <<>>]_vars

C11_Witness ==
    /\ Len(events) = 2
    /\ events[1] = [out |-> "FinalityProofImport", origin |-> "p2", hash |-> "h2",
                    nb |-> MaxNumber, proof |-> "f1"]
    /\ events[2] = [out |-> "BlockImport", origin |-> "NetworkInitialSync",
                    blocks |-> <<"b2", "b1">>]
    /\ calls = <<>>

\* C12: a NotificationsReceived event of the sync sub-protocol appends exactly
\* one NotificationsReceived event carrying the same peer and the whole
\* message list in its original order, however many messages it holds.
C12_Received ==
    [][\A p \in PeerIds, m \in MessageLists :
          inject_event_CustomMessageOutcome(
              [type |-> "NotificationsReceived", remote |-> p, messages |-> m]) =>
              /\ events' = Append(events,
                                  [out |-> "Event",
                                   event |-> [type |-> "NotificationsReceived",
                                              remote |-> p, messages |-> m]])
              /\ calls' = <<>>]_vars

C12_Witness ==
    /\ Len(events) = 2
    /\ events[2] = [out |-> "Event",
                    event |-> [type |-> "NotificationsReceived", remote |-> "p2",
                               messages |-> <<<<"e1", "m2">>, <<"e1", "m1">>,
                                              <<"e2", "m1">>>>]]

IsOpened(ev, p, t) ==
    /\ ev.out = "Event"
    /\ ev.event.type = "NotificationStreamOpened"
    /\ ev.event.remote = p
    /\ ev.event.engine_id = t

IsClosed(ev, p, t) ==
    /\ ev.out = "Event"
    /\ ev.event.type = "NotificationStreamClosed"
    /\ ev.event.remote = p
    /\ ev.event.engine_id = t

\* Every closed event for (p, t) in s has an opened event for (p, t) before it.
OpenedBeforeClosed(s, p, t) ==
    \A j \in 1..Len(s) :
        IsClosed(s[j], p, t) => \E i \in 1..(j - 1) : IsOpened(s[i], p, t)

\* C13: a NotificationStreamClosed event for peer p listing [t1..tn] appends
\* exactly n closed events, the i-th carrying p and ti; and for every peer and
\* protocol whose closed events were all queued after an opened one, each
\* closed event returned by poll was returned after an opened one.
C13_Closed ==
    /\ [][\A p \in PeerIds, l \in ListsUpTo2(EngineIds) :
            inject_event_CustomMessageOutcome(
                [type |-> "NotificationStreamClosed", remote |-> p, protocols |-> l]) =>
                /\ events' = events \o
                       [i \in 1..Len(l) |->
                           [out |-> "Event",
                            event |-> [type |-> "NotificationStreamClosed",
                                       remote |-> p, engine_id |-> l[i]]]]
                /\ calls' = <<>>]_vars
    /\ [](\A p \in PeerIds, t \in EngineIds :
            OpenedBeforeClosed(pushed, p, t) => OpenedBeforeClosed(polled, p, t))

C13_Witness ==
    /\ Len(polled) = 2
    /\ IsOpened(polled[1], "p1", "e2")
    /\ IsClosed(polled[2], "p1", "e2")
    /\ events = <<>>

DhtOut(variant, payload) ==
    [out |-> "Event",
     event |-> [type |-> "Dht", dht |-> [variant |-> variant, payload |-> payload]]]

\* C14: a ValueFound, ValueNotFound, ValuePut or ValuePutFailed event of
\* discovery appends exactly one DHT event of the same name carrying the same
\* payload, so that a failure is never reported as a success nor a success as
\* a failure; the handler returns normally and makes no call.
C14_DhtKinds ==
    /\ [][\A r \in ResultLists :
            inject_event_DiscoveryOut([type |-> "ValueFound", results |-> r]) =>
                events' = Append(events, DhtOut("ValueFound", r))]_vars
    /\ [][\A k \in Keys :
            inject_event_DiscoveryOut([type |-> "ValueNotFound", key |-> k]) =>
                events' = Append(events, DhtOut("ValueNotFound", k))]_vars
    /\ [][\A k \in Keys :
            inject_event_DiscoveryOut([type |-> "ValuePut", key |-> k]) =>
                events' = Append(events, DhtOut("ValuePut", k))]_vars
    /\ [][\A k \in Keys :
            inject_event_DiscoveryOut([type |-> "ValuePutFailed", key |-> k]) =>
                events' = Append(events, DhtOut("ValuePutFailed", k))]_vars
    /\ [][\A out \in DiscOuts :
            (out.type \in DhtTypes /\ inject_event_DiscoveryOut(out)) =>
                (ret' = Unit /\ calls' = <<>> /\ ~panicked')]_vars

C14_Witness ==
    /\ Len(events) = 2
    /\ events[1] = DhtOut("ValuePutFailed", "k1")
    /\ events[2] = DhtOut("ValuePut", "k1")
    /\ ret = Unit
    /\ ~panicked

\* C15: a RandomKademliaStarted event of discovery listing [p1..pn] appends
\* exactly n RandomKademliaStarted events, the i-th carrying pi; an empty
\* list appends nothing.
C15_Kademlia ==
    [][\A l \in ListsUpTo2(ProtocolIds) :
          inject_event_DiscoveryOut([type |-> "RandomKademliaStarted", protocols |-> l]) =>
              /\ events' = events \o
                     [i \in 1..Len(l) |-> [out |-> "RandomKademliaStarted",
                                           protocol |-> l[i]]]
              /\ (l = <<>> => (events' = events /\ pushed' = pushed))
              /\ calls' = <<>>]_vars

C15_Witness ==
    /\ events = <<[out |-> "RandomKademliaStarted", protocol |-> "ksm"],
                  [out |-> "RandomKademliaStarted", protocol |-> "dot"]>>
    /\ polled = <<>>

\* C16: an UnroutablePeer event of discovery changes nothing and makes no
\* call; a Discovered(p) event leaves the queue unchanged and makes exactly
\* one call, add_discovered_nodes on the sync sub-protocol with p alone.
C16_Discovered ==
    /\ [][\A p \in PeerIds :
            inject_event_DiscoveryOut([type |-> "UnroutablePeer", peer_id |-> p]) =>
                /\ UNCHANGED <<events, role, pushed, polled, panicked>>
                /\ calls' = <<>>]_vars
    /\ [][\A p \in PeerIds :
            inject_event_DiscoveryOut([type |-> "Discovered", peer_id |-> p]) =>
                /\ UNCHANGED <<events, role, pushed, polled, panicked>>
                /\ calls' = <<[target |-> "substrate",
                               method |-> "add_discovered_nodes",
                               args |-> <<p>>]>>]_vars

C16_Witness ==
    /\ calls = <<[target |-> "substrate", method |-> "add_discovered_nodes",
                  args |-> <<"p2">>]>>
    /\ Len(events) = 1
    /\ Len(polled) = 1

\* C17: get_value(k) makes exactly one call, get_value(k) on discovery, and
\* put_value(k, v) exactly one call, put_value(k, v) on discovery, in every
\* state: also when the call made just before was the same one.
C17_Forwarded ==
    /\ [][\A k \in Keys :
            get_value(k) =>
                /\ calls' = <<[target |-> "discovery", method |-> "get_value",
                               args |-> <<k>>]>>
                /\ UNCHANGED <<events, role, pushed, polled, panicked>>]_vars
    /\ [][\A k \in Keys, v \in {"v1", "v2"} :
            put_value(k, v) =>
                /\ calls' = <<[target |-> "discovery", method |-> "put_value",
                               args |-> <<k, v>>]>>
                /\ UNCHANGED <<events, role, pushed, polled, panicked>>]_vars

C17_Witness ==
    /\ calls = <<[target |-> "discovery", method |-> "put_value",
                  args |-> <<"k2", "v2">>]>>
    /\ Len(events) = 1
    /\ Len(polled) = 1
    /\ ret = Unit

\* C18: when poll is called again and again, the n-th event ever appended is
\* eventually the n-th event returned by poll, whatever other operations run
\* in between; once no more events are appended the queue eventually is empty
\* and stays empty, and a poll on the empty queue reports Pending.
C18_Drained ==
    /\ \A n \in 1..MaxPushed :
          (Len(pushed) >= n) ~> (Len(polled) >= n /\ polled[n] = pushed[n])
    /\ \A n \in 0..MaxPushed :
          <>[](Len(pushed) = n) => <>[](events = <<>> /\ Len(polled) = n)
    /\ [][(poll /\ events = <<>>) => (ret' = Pending /\ events' = <<>>)]_vars

C18_Witness ==
    /\ Len(polled) = MaxPushed
    /\ polled = pushed
    /\ events = <<>>
    /\ ret = Pending

AuthorityClass == {"Authority", "OurSentry", "OurGuardedAuthority"}

IsOpenedFor(ev, p) ==
    /\ ev.out = "Event"
    /\ ev.event.type = "NotificationStreamOpened"
    /\ ev.event.remote = p

\* C19: no operation changes the local role; in every state registration and
\* an opened stream give the same peer with the same flags the same observed
\* role; and all the opened events ever queued for one peer reported as an
\* authority carry one and the same observed role.
C19_RoleFixed ==
    /\ [][role' = role]_vars
    /\ [](\A p \in PeerIds, f \in Roles :
            RegisteredEvents(role, "e1", <<<<p, f>>>>)
                = StreamOpenedEvents(role, p, <<"e1">>, f))
    /\ [](\A p \in PeerIds : \A i, j \in 1..Len(pushed) :
            (/\ IsOpenedFor(pushed[i], p)
             /\ IsOpenedFor(pushed[j], p)
             /\ pushed[i].event.role \in AuthorityClass
             /\ pushed[j].event.role \in AuthorityClass)
                => pushed[i].event.role = pushed[j].event.role)

C19_Witness ==
    /\ role = [kind |-> "Authority", sentry_nodes |-> {"p1"}]
    /\ Len(pushed) = 2
    /\ pushed[1] = BehaviourOutEvent(NotificationStreamOpened("p1", "e1", "OurSentry"))
    /\ pushed[2] = BehaviourOutEvent(NotificationStreamOpened("p1", "e2", "OurSentry"))
    /\ Len(polled) = 1

\* C20: the queue shrinks only in a poll that finds it non-empty, which
\* removes its first element and nothing else; every other step, of whatever
\* handler, registration or facade call, leaves the elements already queued in
\* place and in order, and at most appends behind them.
C20_AppendOnly ==
    /\ [][Len(events') < Len(events) =>
            /\ poll
            /\ events # <<>>
            /\ events' = Tail(events)
            /\ Len(events') = Len(events) - 1]_vars
    /\ [][Len(events') >= Len(events) =>
            /\ SubSeq(events', 1, Len(events)) = events
            /\ events' = events \o SubSeq(pushed', Len(pushed) + 1, Len(pushed'))]_vars
    /\ [][(\/ Register \/ AddKnownAddress \/ GetValue \/ PutValue
           \/ LightClientRequest \/ InjectCustom \/ InjectIdentified
           \/ InjectDiscovery) =>
            SubSeq(events', 1, Len(events)) = events]_vars

C20_Witness ==
    /\ Len(events) = 2
    /\ events[1] # events[2]
    /\ Len(polled) = 0
    /\ calls = <<[target |-> "discovery", method |-> "get_value", args |-> <<"k1">>]>>

====
